---- MODULE Spec2Model ----
(***************************************************************************)
(* Model of the FreeRDP proxy configuration loader                         *)
(* (server/proxy/pf_config.c): the scalar readers, the nine section        *)
(* loaders, server_config_load_ini and its two entry points,               *)
(* pf_server_config_free and pf_config_clone.                              *)
(*                                                                         *)
(* A C string is a sequence of one-character strings.  An optional value   *)
(* (a pointer that may be NULL) is a sequence of length 0 (NULL) or 1.     *)
(* Heap storage is a function from addresses to blocks; a pointer is an    *)
(* address, NULL is 0.                                                     *)
(***************************************************************************)
EXTENDS Integers, Sequences, FiniteSets, TLC

VARIABLES
    ini,      \* the KeyStore: key -> optional string (the parsed INI text)
    pc,       \* position of the program
    entry,    \* entry point used: "none", "buffer", "file"
    heap,     \* heap storage: address -> block
    allocs,   \* allocations made so far by the running call
    failAt,   \* index of the allocation of the running call that fails
    config,   \* server_config_load_ini's local `config` pointer
    loaded,   \* the pointer the caller received from the load entry point
    ran,      \* history: <<loader, succeeded>> of each section loader run
    probed,   \* history: paths handed to winpr_PathFileExists
    dst,      \* the caller's *dst of pf_config_clone
    cloneRc,  \* what pf_config_clone returned: "none", "TRUE", "FALSE"
    nclones,  \* number of pf_config_clone calls made
    rd        \* last scalar reader call and its outcome

vars == <<ini, pc, entry, heap, allocs, failAt, config, loaded, ran, probed,
          dst, cloneRc, nclones, rd>>

----------------------------------------------------------------------------
(* Bounds of the model *)

\* number of heap addresses
HeapSize == 25
\* largest allocation index that may be chosen to fail
MaxFailAt == 7
\* number of pf_config_clone calls
MaxClones == 1

----------------------------------------------------------------------------
(* Program constants *)

NULL == 0
UINT16_MAX == 65535
INT32_MAX == 2147483647
CHANNEL_NAME_LEN == 7

\* failAt value meaning that no allocation fails
NoFail == 0 - 1

None == <<>>
Some(x) == <<x>>
IsSome(o) == Len(o) = 1
Get(o) == o[1]

----------------------------------------------------------------------------
(* C strings *)

LowerSeq == <<"a","b","c","d","e","f","g","h","i","j","k","l","m",
              "n","o","p","q","r","s","t","u","v","w","x","y","z">>
UpperSeq == <<"A","B","C","D","E","F","G","H","I","J","K","L","M",
              "N","O","P","Q","R","S","T","U","V","W","X","Y","Z">>
DigitSeq == <<"0","1","2","3","4","5","6","7","8","9">>

\* the first position of ch in seq, or 0
IndexIn(seq, ch) ==
    IF \E i \in 1..Len(seq) : seq[i] = ch
    THEN CHOOSE i \in 1..Len(seq) : seq[i] = ch /\ \A j \in 1..(i - 1) : seq[j] # ch
    ELSE 0

UpperAt(k, ch) == IF k > 0 THEN UpperSeq[k] ELSE ch

toupper(ch) == UpperAt(IndexIn(LowerSeq, ch), ch)

\* value of a character as a digit (letters count from 10), or 99 when it
\* is none: a, b, c are its positions among the digits and the letters
DigitAt(a, b, c) ==
    IF a > 0 THEN a - 1 ELSE IF b > 0 THEN b + 9 ELSE IF c > 0 THEN c + 9 ELSE 99

DigitVal(ch) == DigitAt(IndexIn(DigitSeq, ch), IndexIn(LowerSeq, ch), IndexIn(UpperSeq, ch))

strlen(s) == Len(s)

\* _stricmp(a, b) == 0
stricmp_eq(a, b) ==
    /\ Len(a) = Len(b)
    /\ \A i \in 1..Len(a) : toupper(a[i]) = toupper(b[i])

S_TRUE == <<"T","R","U","E">>

Drop(s, n) == SubSeq(s, n + 1, Len(s))

(* strtol(s, NULL, 0), then IniFile_GetKeyValueInt's range check.  The      *)
(* digits are accumulated as a magnitude that never leaves 0..INT32_MAX:    *)
(* acc.st is "ok", "min" (the magnitude is exactly 2^31) or "over".         *)

\* acc.mag * base + d is at most INT32_MAX
Fits(acc, base, d) == acc.st = "ok" /\ acc.mag <= (INT32_MAX - d) \div base

\* acc.mag * base + d is exactly 2^31
IsMin(acc, base, d) ==
    /\ acc.st = "ok"
    /\ IF d >= 1
       THEN /\ acc.mag <= (INT32_MAX - (d - 1)) \div base
            /\ acc.mag * base + (d - 1) = INT32_MAX
       ELSE /\ acc.mag >= 1
            /\ (acc.mag - 1) * base + (base - 1) = INT32_MAX

Accumulate(acc, base, d) ==
    IF Fits(acc, base, d) THEN [mag |-> acc.mag * base + d, st |-> "ok"]
    ELSE IF IsMin(acc, base, d) THEN [mag |-> 0, st |-> "min"]
    ELSE [mag |-> 0, st |-> "over"]

RECURSIVE StrtolDigits(_, _, _)
StrtolDigits(s, base, acc) ==
    IF s = <<>> THEN acc
    ELSE IF DigitVal(s[1]) >= base THEN acc
    ELSE StrtolDigits(Drop(s, 1), base, Accumulate(acc, base, DigitVal(s[1])))

RECURSIVE SkipSpace(_)
SkipSpace(s) == IF s # <<>> /\ s[1] = " " THEN SkipSpace(Drop(s, 1)) ELSE s

HasSign(t) == t # <<>> /\ t[1] \in {"-", "+"}

IsHex(u) == Len(u) >= 3 /\ u[1] = "0" /\ u[2] \in {"x", "X"} /\ DigitVal(u[3]) < 16

\* the int made of the sign and of the magnitude r
IntOf(neg, r) ==
    IF r.st = "over" THEN 0
    ELSE IF r.st = "min" THEN (IF neg THEN (0 - INT32_MAX) - 1 ELSE 0)
    ELSE IF neg THEN 0 - r.mag ELSE r.mag

\* u is the text after the sign
StrtolUnsigned(u) ==
    IF IsHex(u) THEN StrtolDigits(Drop(u, 2), 16, [mag |-> 0, st |-> "ok"])
    ELSE IF u # <<>> /\ u[1] = "0" THEN StrtolDigits(u, 8, [mag |-> 0, st |-> "ok"])
    ELSE StrtolDigits(u, 10, [mag |-> 0, st |-> "ok"])

\* t is the text after the leading spaces
StrtolSigned(t) ==
    IF HasSign(t) THEN IntOf(t[1] = "-", StrtolUnsigned(Drop(t, 1)))
    ELSE IntOf(FALSE, StrtolUnsigned(t))

\* the int IniFile_GetKeyValueInt makes of the string s of a present key: a
\* value outside int, or one strtol reports ERANGE for, is 0
StrToInt(s) == StrtolSigned(SkipSpace(s))

----------------------------------------------------------------------------
(* The KeyStore (wIniFile) *)

Keys == {"Server.Host", "Server.Port",
         "Target.FixedTarget", "Target.Port", "Target.Host",
         "Channels.GFX", "Channels.DisplayControl", "Channels.Clipboard",
         "Channels.AudioOutput", "Channels.RemoteApp", "Channels.Passthrough",
         "Input.Keyboard", "Input.Mouse",
         "Security.ServerTlsSecurity", "Security.ServerRdpSecurity",
         "Security.ClientTlsSecurity", "Security.ClientNlaSecurity",
         "Security.ClientRdpSecurity", "Security.ClientAllowFallbackToTls",
         "Plugins.Modules", "Plugins.Required",
         "Clipboard.TextOnly", "Clipboard.MaxTextLength",
         "GFXSettings.DecodeGFX",
         "Certificates.CertificateFile", "Certificates.CertificateContent",
         "Certificates.PrivateKeyFile", "Certificates.PrivateKeyContent",
         "Certificates.RdpKeyFile", "Certificates.RdpKeyContent"}

\* the string of a key, or NULL
IniFile_GetKeyValueString(i, key) == i[key]

\* the int of a key: 0 when the key is absent
IniFile_GetKeyValueInt(i, key) ==
    IF IsSome(i[key]) THEN StrToInt(Get(i[key])) ELSE 0

----------------------------------------------------------------------------
(* Heap storage *)

Addr == 1..HeapSize

FreeBlock == [kind |-> "free", val |-> <<>>]
StrBlock(s) == [kind |-> "str", val |-> s]
ListBlock(l) == [kind |-> "list", val |-> l]
CfgBlock(c) == [kind |-> "cfg", val |-> c]

\* a memory context m is a record with the fields heap and n (allocations
\* made by the running call); an allocation adds the field ptr
Mem(h, n) == [heap |-> h, n |-> n]

\* the lowest free address
FreshAddr(h) ==
    CHOOSE x \in Addr : h[x].kind = "free" /\ \A y \in Addr : h[y].kind = "free" => x <= y

\* calloc/_strdup called by pf_config.c: NULL when this is the allocation
\* of the running call that fails
Malloc(m, blk) ==
    LET fails == m.n = failAt
    IN  [heap |-> IF fails THEN m.heap ELSE [m.heap EXCEPT ![FreshAddr(m.heap)] = blk],
         n    |-> m.n + 1,
         ptr  |-> IF fails THEN NULL ELSE FreshAddr(m.heap)]

\* storage taken by the list encoding library (CommandLine...Values), whose
\* interface as specified has no failure
LibAlloc(m, blk) ==
    [heap |-> [m.heap EXCEPT ![FreshAddr(m.heap)] = blk], n |-> m.n,
     ptr |-> FreshAddr(m.heap)]

\* free(p); free(NULL) does nothing
Free(h, p) == IF p = NULL THEN h ELSE [h EXCEPT ![p] = FreeBlock]

strdup(m, s) == Malloc(m, StrBlock(s))

----------------------------------------------------------------------------
(* Scalar readers *)

Uint16Invalid(val) == (val <= 0) \/ (val > UINT16_MAX)

\* faulty variant: the 16-bit reader's test, which also rejects 0
Uint32Invalid_RejectsZero(val) == (val <= 0) \/ (val > INT32_MAX)

Uint32Invalid(val) == (val < 0) \/ (val > INT32_MAX)

\* result is the value of *result after the call (old when it fails);
\* val is what IniFile_GetKeyValueInt returned
Uint16Result(present, val, old, required) ==
    IF ~present /\ required THEN [ok |-> FALSE, result |-> old]
    ELSE IF Uint16Invalid(val) THEN [ok |-> FALSE, result |-> old]
    ELSE [ok |-> TRUE, result |-> val]

pf_config_get_uint16(i, key, old, required) ==
    Uint16Result(IsSome(IniFile_GetKeyValueString(i, key)),
                 IniFile_GetKeyValueInt(i, key), old, required)

Uint32Result(present, val, old, required) ==
    IF ~present /\ required THEN [ok |-> FALSE, result |-> old]
    ELSE IF Uint32Invalid(val) THEN [ok |-> FALSE, result |-> old]
    ELSE [ok |-> TRUE, result |-> val]

pf_config_get_uint32(i, key, old, required) ==
    Uint32Result(IsSome(IniFile_GetKeyValueString(i, key)),
                 IniFile_GetKeyValueInt(i, key), old, required)

\* faulty variant: a value other than TRUE is true when its int is not 0
pf_config_get_bool_ZeroSentinel(i, key, fallback) ==
    IF ~IsSome(IniFile_GetKeyValueString(i, key)) THEN fallback
    ELSE IF stricmp_eq(Get(IniFile_GetKeyValueString(i, key)), S_TRUE) THEN TRUE
    ELSE IF IniFile_GetKeyValueInt(i, key) # 0 THEN TRUE
    ELSE FALSE

pf_config_get_bool(i, key, fallback) ==
    IF ~IsSome(IniFile_GetKeyValueString(i, key)) THEN fallback
    ELSE IF stricmp_eq(Get(IniFile_GetKeyValueString(i, key)), S_TRUE) THEN TRUE
    ELSE IF IniFile_GetKeyValueInt(i, key) # 1 THEN TRUE
    ELSE FALSE

\* the value or NULL; `required` only decides whether the absence is logged
pf_config_get_str(i, key, required) == IniFile_GetKeyValueString(i, key)

----------------------------------------------------------------------------
(* Comma separated lists *)

\* s cut at its comma at position k (0: s has none)
RECURSIVE SplitAt(_, _)
SplitAt(s, k) ==
    IF k = 0 THEN <<s>>
    ELSE <<SubSeq(s, 1, k - 1)>> \o SplitAt(Drop(s, k), IndexIn(Drop(s, k), ","))

Split(s) == SplitAt(s, IndexIn(s, ","))

RECURSIVE Join(_)
Join(l) ==
    IF Len(l) = 0 THEN <<>>
    ELSE IF Len(l) = 1 THEN l[1]
    ELSE l[1] \o <<",">> \o Join(Tail(l))

\* list is an optional string; the result adds ptr and count to the context
CommandLineParseCommaSeparatedValues(m, list) ==
    IF ~IsSome(list) THEN [heap |-> m.heap, n |-> m.n, ptr |-> NULL, count |-> 0]
    ELSE LET r == LibAlloc(m, ListBlock(Split(Get(list))))
         IN  [heap |-> r.heap, n |-> r.n, ptr |-> r.ptr,
              count |-> IF r.ptr = NULL THEN 0 ELSE Len(Split(Get(list)))]

\* argv is the list's elements; the result's ptr is the joined string or NULL
CommandLineToCommaSeparatedValues(m, argc, argv) ==
    IF argc <= 0 THEN [heap |-> m.heap, n |-> m.n, ptr |-> NULL]
    ELSE LibAlloc(m, StrBlock(Join(argv)))

\* count is the value of *count before the call
pf_config_parse_comma_separated_list(m, list, count) ==
    IF ~IsSome(list) THEN [heap |-> m.heap, n |-> m.n, ptr |-> NULL, count |-> count]
    ELSE IF strlen(Get(list)) = 0
         THEN [heap |-> m.heap, n |-> m.n, ptr |-> NULL, count |-> 0]
    ELSE CommandLineParseCommaSeparatedValues(m, list)

----------------------------------------------------------------------------
(* The configuration object *)

\* calloc(1, sizeof(proxyConfig))
ZeroConfig ==
    [Host |-> NULL, Port |-> 0,
     FixedTarget |-> FALSE, TargetHost |-> NULL, TargetPort |-> 0,
     GFX |-> FALSE, DisplayControl |-> FALSE, Clipboard |-> FALSE,
     AudioOutput |-> FALSE, RemoteApp |-> FALSE,
     Passthrough |-> NULL, PassthroughCount |-> 0,
     Keyboard |-> FALSE, Mouse |-> FALSE,
     ServerTlsSecurity |-> FALSE, ServerRdpSecurity |-> FALSE,
     ClientTlsSecurity |-> FALSE, ClientNlaSecurity |-> FALSE,
     ClientRdpSecurity |-> FALSE, ClientAllowFallbackToTls |-> FALSE,
     TextOnly |-> FALSE, MaxTextLength |-> 0,
     Modules |-> NULL, ModulesCount |-> 0,
     RequiredPlugins |-> NULL, RequiredPluginsCount |-> 0,
     DecodeGFX |-> FALSE,
     CertificateFile |-> NULL, CertificateContent |-> NULL,
     PrivateKeyFile |-> NULL, PrivateKeyContent |-> NULL,
     RdpKeyFile |-> NULL, RdpKeyContent |-> NULL]

\* the pointer fields pf_server_config_free releases
OwnedFields == {"Passthrough", "RequiredPlugins", "Modules", "TargetHost", "Host",
                "CertificateFile", "CertificateContent", "PrivateKeyFile",
                "PrivateKeyContent", "RdpKeyFile", "RdpKeyContent"}

\* faulty variant: TargetHost is not released
pf_server_config_free_LeaksTargetHost(h, p) ==
    IF p = NULL THEN h
    ELSE LET gone == {h[p].val[f] : f \in OwnedFields \ {"TargetHost"}} \cup {p}
         IN  [a \in Addr |-> IF a \in gone THEN FreeBlock ELSE h[a]]

pf_server_config_free(h, p) ==
    IF p = NULL THEN h
    ELSE LET gone == {h[p].val[f] : f \in OwnedFields} \cup {p}
         IN  [a \in Addr |-> IF a \in gone THEN FreeBlock ELSE h[a]]

----------------------------------------------------------------------------
(* Section loaders: i is the KeyStore, m the memory context, c the value   *)
(* of *config; the result holds the return value, the memory and *config   *)
(* after the call.                                                         *)

LR(ok, m, c) == [ok |-> ok, heap |-> m.heap, n |-> m.n, c |-> c]

\* faulty variant: the port is read and validated before the host is looked at
pf_config_load_server_PortFirst(i, m, c) ==
    LET host == pf_config_get_str(i, "Server.Host", FALSE)
        p    == pf_config_get_uint16(i, "Server.Port", c.Port, TRUE)
        c0   == [c EXCEPT !.Port = p.result]
        d    == strdup(m, Get(host))
    IN  IF ~p.ok THEN LR(FALSE, m, c)
        ELSE IF ~IsSome(host) THEN LR(TRUE, m, c0)
        ELSE IF d.ptr = NULL THEN LR(FALSE, d, c0)
        ELSE LR(TRUE, d, [c0 EXCEPT !.Host = d.ptr])

pf_config_load_server(i, m, c) ==
    LET host == pf_config_get_str(i, "Server.Host", FALSE)
    IN  IF ~IsSome(host) THEN LR(TRUE, m, c)
        ELSE LET d  == strdup(m, Get(host))
                 c1 == [c EXCEPT !.Host = d.ptr]
                 p  == pf_config_get_uint16(i, "Server.Port", c1.Port, TRUE)
             IN  IF d.ptr = NULL THEN LR(FALSE, d, c1)
                 ELSE IF ~p.ok THEN LR(FALSE, d, c1)
                 ELSE LR(TRUE, d, [c1 EXCEPT !.Port = p.result])

\* faulty variant: an absent Target.Host is accepted
pf_config_load_target_HostOptional(i, m, c) ==
    LET c1 == [c EXCEPT !.FixedTarget =
                   pf_config_get_bool(i, "Target.FixedTarget", FALSE)]
        p  == pf_config_get_uint16(i, "Target.Port", c1.TargetPort, c1.FixedTarget)
        c2 == [c1 EXCEPT !.TargetPort = p.result]
        target_host == pf_config_get_str(i, "Target.Host", c1.FixedTarget)
        d  == strdup(m, Get(target_host))
        c3 == [c2 EXCEPT !.TargetHost = d.ptr]
    IN  IF ~p.ok THEN LR(FALSE, m, c1)
        ELSE IF ~IsSome(target_host) THEN LR(TRUE, m, c2)
        ELSE IF d.ptr = NULL THEN LR(FALSE, d, c3)
        ELSE LR(TRUE, d, c3)

pf_config_load_target(i, m, c) ==
    LET c1 == [c EXCEPT !.FixedTarget =
                   pf_config_get_bool(i, "Target.FixedTarget", FALSE)]
        p  == pf_config_get_uint16(i, "Target.Port", c1.TargetPort, c1.FixedTarget)
        c2 == [c1 EXCEPT !.TargetPort = p.result]
        target_host == pf_config_get_str(i, "Target.Host", c1.FixedTarget)
        d  == strdup(m, Get(target_host))
        c3 == [c2 EXCEPT !.TargetHost = d.ptr]
    IN  IF ~p.ok THEN LR(FALSE, m, c1)
        ELSE IF ~IsSome(target_host) THEN LR(FALSE, m, c2)
        ELSE IF d.ptr = NULL THEN LR(FALSE, d, c3)
        ELSE LR(TRUE, d, c3)

\* faulty variant: a name of exactly CHANNEL_NAME_LEN characters is too long
NameTooLong_OffByOne(name) == strlen(name) >= CHANNEL_NAME_LEN

NameTooLong(name) == strlen(name) > CHANNEL_NAME_LEN

pf_config_load_channels(i, m, c) ==
    LET l  == pf_config_parse_comma_separated_list(
                  m, pf_config_get_str(i, "Channels.Passthrough", FALSE),
                  c.PassthroughCount)
        c1 == [c EXCEPT
                 !.GFX = pf_config_get_bool(i, "Channels.GFX", TRUE),
                 !.DisplayControl = pf_config_get_bool(i, "Channels.DisplayControl", TRUE),
                 !.Clipboard = pf_config_get_bool(i, "Channels.Clipboard", FALSE),
                 !.AudioOutput = pf_config_get_bool(i, "Channels.AudioOutput", TRUE),
                 !.RemoteApp = pf_config_get_bool(i, "Channels.RemoteApp", FALSE),
                 !.Passthrough = l.ptr,
                 !.PassthroughCount = l.count]
    IN  IF \E x \in 1..l.count : NameTooLong(l.heap[l.ptr].val[x])
        THEN LR(FALSE, l, c1)
        ELSE LR(TRUE, l, c1)

pf_config_load_input(i, m, c) ==
    LR(TRUE, m, [c EXCEPT
        !.Keyboard = pf_config_get_bool(i, "Input.Keyboard", TRUE),
        !.Mouse = pf_config_get_bool(i, "Input.Mouse", TRUE)])

pf_config_load_security(i, m, c) ==
    LR(TRUE, m, [c EXCEPT
        !.ServerTlsSecurity = pf_config_get_bool(i, "Security.ServerTlsSecurity", TRUE),
        !.ServerRdpSecurity = pf_config_get_bool(i, "Security.ServerRdpSecurity", TRUE),
        !.ClientTlsSecurity = pf_config_get_bool(i, "Security.ClientTlsSecurity", TRUE),
        !.ClientNlaSecurity = pf_config_get_bool(i, "Security.ClientNlaSecurity", TRUE),
        !.ClientRdpSecurity = pf_config_get_bool(i, "Security.ClientRdpSecurity", TRUE),
        !.ClientAllowFallbackToTls =
            pf_config_get_bool(i, "Security.ClientAllowFallbackToTls", TRUE)])

pf_config_load_clipboard(i, m, c) ==
    LET c1 == [c EXCEPT !.TextOnly = pf_config_get_bool(i, "Clipboard.TextOnly", FALSE)]
        p  == pf_config_get_uint32(i, "Clipboard.MaxTextLength", c1.MaxTextLength, FALSE)
    IN  IF ~p.ok THEN LR(FALSE, m, c1)
        ELSE LR(TRUE, m, [c1 EXCEPT !.MaxTextLength = p.result])

pf_config_load_modules(i, m, c) ==
    LET modules_to_load  == IniFile_GetKeyValueString(i, "Plugins.Modules")
        required_modules == IniFile_GetKeyValueString(i, "Plugins.Required")
        l1 == pf_config_parse_comma_separated_list(m, modules_to_load, c.ModulesCount)
        l2 == pf_config_parse_comma_separated_list(l1, required_modules,
                                                   c.RequiredPluginsCount)
    IN  LR(TRUE, l2, [c EXCEPT !.Modules = l1.ptr, !.ModulesCount = l1.count,
                               !.RequiredPlugins = l2.ptr,
                               !.RequiredPluginsCount = l2.count])

pf_config_load_gfx_settings(i, m, c) ==
    LR(TRUE, m, [c EXCEPT !.DecodeGFX =
                     pf_config_get_bool(i, "GFXSettings.DecodeGFX", FALSE)])

\* the files that exist
pC == <<"c">>
pK == <<"k">>
pR == <<"r">>
Files == {pC, pK, pR}

winpr_PathFileExists(path) == path \in Files

\* faulty variant: both variants together are accepted
CardinalityFails_NoExclusion(has1, has2) == ~has1 /\ ~has2

\* the file and content variants are mutually exclusive, and one is required
CardinalityFails(has1, has2) == (has1 /\ has2) \/ (~has1 /\ ~has2)

(* One credential triple of pf_config_load_certificates (the function holds *)
(* the same code three times): r is the state before it, with the field     *)
(* probes; fileKey/contentKey are the triple's keys, which also name the    *)
(* fields of the configuration.                                            *)
CR(ok, m, c, probes) ==
    [ok |-> ok, heap |-> m.heap, n |-> m.n, c |-> c, probes |-> probes]

LoadTriple(i, r, fileKey, contentKey) ==
    LET tmp1 == pf_config_get_str(i, "Certificates." \o fileKey, FALSE)
        pr1  == IF IsSome(tmp1) THEN Append(r.probes, Get(tmp1)) ELSE r.probes
        d1   == IF IsSome(tmp1) THEN strdup(r, Get(tmp1))
                ELSE [heap |-> r.heap, n |-> r.n, ptr |-> r.c[fileKey]]
        c1   == [r.c EXCEPT ![fileKey] = d1.ptr]
        tmp2 == pf_config_get_str(i, "Certificates." \o contentKey, FALSE)
        d2   == IF IsSome(tmp2) THEN strdup(d1, Get(tmp2))
                ELSE [heap |-> d1.heap, n |-> d1.n, ptr |-> c1[contentKey]]
        c2   == [c1 EXCEPT ![contentKey] = d2.ptr]
    IN  IF IsSome(tmp1) /\ ~winpr_PathFileExists(Get(tmp1)) THEN CR(FALSE, r, r.c, pr1)
        ELSE IF IsSome(tmp2) /\ strlen(Get(tmp2)) < 1 THEN CR(FALSE, d1, c1, pr1)
        ELSE IF CardinalityFails(IsSome(tmp1), IsSome(tmp2)) THEN CR(FALSE, d2, c2, pr1)
        ELSE CR(TRUE, d2, c2, pr1)

\* probes is the history of winpr_PathFileExists calls before the call
pf_config_load_certificates(i, m, c, probes) ==
    LET r0 == CR(TRUE, m, c, probes)
        r1 == LoadTriple(i, r0, "CertificateFile", "CertificateContent")
        r2 == LoadTriple(i, r1, "PrivateKeyFile", "PrivateKeyContent")
        r3 == LoadTriple(i, r2, "RdpKeyFile", "RdpKeyContent")
    IN  IF ~r1.ok THEN r1 ELSE IF ~r2.ok THEN r2 ELSE r3

----------------------------------------------------------------------------
(* Deep copy *)

\* *dst = NULL; if (src) *dst = _strdup(src); return TRUE
pf_config_copy_string(m, src) ==
    LET d == IF src # NULL THEN strdup(m, m.heap[src].val)
             ELSE [heap |-> m.heap, n |-> m.n, ptr |-> NULL]
    IN  [ok |-> TRUE, heap |-> d.heap, n |-> d.n, ptr |-> d.ptr]

pf_config_copy_string_list(m, src, srcSize) ==
    IF srcSize = 0
    THEN [ok |-> TRUE, heap |-> m.heap, n |-> m.n, ptr |-> NULL, size |-> 0]
    ELSE LET csv == CommandLineToCommaSeparatedValues(m, srcSize, m.heap[src].val)
             l   == CommandLineParseCommaSeparatedValues(
                        csv, IF csv.ptr = NULL THEN None
                             ELSE Some(csv.heap[csv.ptr].val))
         IN  [ok |-> TRUE, heap |-> l.heap, n |-> l.n, ptr |-> l.ptr,
              size |-> l.count]

\* the copies pf_config_clone makes, in its order: <<kind, field, count field>>
CloneSteps ==
    << <<"str", "Host", "">>, <<"str", "TargetHost", "">>,
       <<"list", "Passthrough", "PassthroughCount">>,
       <<"list", "Modules", "ModulesCount">>,
       <<"list", "RequiredPlugins", "RequiredPluginsCount">>,
       <<"str", "CertificateFile", "">>, <<"str", "CertificateContent", "">>,
       <<"str", "PrivateKeyFile", "">>, <<"str", "PrivateKeyContent", "">>,
       <<"str", "RdpKeyFile", "">>, <<"str", "RdpKeyContent", "">> >>

\* the copy of step st: a string, or a list with its count
CopyStep(st, m, src) ==
    IF st[1] = "str"
    THEN [size |-> 0] @@ pf_config_copy_string(m, src[st[2]])
    ELSE pf_config_copy_string_list(m, src[st[2]], src[st[3]])

\* *tmp after the copy r of step st
Copied(st, tmp, r) ==
    IF st[1] = "str" THEN [tmp EXCEPT ![st[2]] = r.ptr]
    ELSE [tmp EXCEPT ![st[2]] = r.ptr, ![st[3]] = r.size]

\* the copies from step k on: tmp is *tmp so far, src is *config; the set
\* binds the result r of step k, `if (!r.ok) goto fail`
RECURSIVE CloneFrom(_, _, _, _)
CloneFrom(k, m, tmp, src) ==
    IF k > Len(CloneSteps) THEN [ok |-> TRUE, heap |-> m.heap, n |-> m.n, tmp |-> tmp]
    ELSE CHOOSE res \in
            { IF ~r.ok
              THEN [ok |-> FALSE, heap |-> r.heap, n |-> r.n,
                    tmp |-> Copied(CloneSteps[k], tmp, r)]
              ELSE CloneFrom(k + 1, Mem(r.heap, r.n), Copied(CloneSteps[k], tmp, r), src)
              : r \in {CopyStep(CloneSteps[k], m, src)} } : TRUE

\* cfg is the source pointer; ptr is what *dst is set to when rc is TRUE
pf_config_clone(m, cfg) ==
    LET t == Malloc(m, CfgBlock(ZeroConfig))
        r == CloneFrom(1, t, m.heap[cfg].val, m.heap[cfg].val)
        h == [r.heap EXCEPT ![t.ptr].val = r.tmp]
    IN  IF t.ptr = NULL THEN [rc |-> FALSE, heap |-> t.heap, n |-> t.n, ptr |-> NULL]
        ELSE IF r.ok THEN [rc |-> TRUE, heap |-> h, n |-> r.n, ptr |-> t.ptr]
        ELSE [rc |-> FALSE, heap |-> pf_server_config_free(h, t.ptr), n |-> r.n,
              ptr |-> NULL]

----------------------------------------------------------------------------
(* The INI texts the model loads *)

sHost == <<"h">>
pM == <<"m">>
sX == <<"X">>

NumVals ==
    { <<"0">>, <<"1">>, <<"-","1">>, <<"3","3","8","9">>,
      <<"6","5","5","3","5">>, <<"6","5","5","3","6">>,
      <<"2","1","4","7","4","8","3","6","4","7">>,
      <<"2","1","4","7","4","8","3","6","4","8">>,
      <<"-","2","1","4","7","4","8","3","6","4","8">>,
      <<"0","x","1","0">>, <<"a","b","c">>, <<>> }

BoolVals ==
    { S_TRUE, <<"t","r","u","e">>, <<"F","A","L","S","E">>, <<"1">>, <<"0">>,
      <<"y","e","s">> }

ListVals ==
    { <<>>, <<"r","d","p","d","r",",","r","d","p","s","n","d">>,
      <<"r","d","p","s","n","d",",","r","d","p","d","r">>,
      <<"1","2","3","4","5","6","7">>, <<"1","2","3","4","5","6","7","8">>,
      <<"a",",","1","2","3","4","5","6","7","8">>, <<"a",",",",","b">> }

PluginVals == { <<>>, <<"m">>, <<"m",",","n">> }

Opt(S) == {None} \cup {Some(x) : x \in S}

BoolKeys ==
    {"Channels.GFX", "Channels.DisplayControl", "Channels.Clipboard",
     "Channels.AudioOutput", "Channels.RemoteApp", "Input.Keyboard", "Input.Mouse",
     "Security.ServerTlsSecurity", "Security.ServerRdpSecurity",
     "Security.ClientTlsSecurity", "Security.ClientNlaSecurity",
     "Security.ClientRdpSecurity", "Security.ClientAllowFallbackToTls",
     "Clipboard.TextOnly", "GFXSettings.DecodeGFX"}

EmptyIni == [k \in Keys |-> None]

\* only [Certificates] with three existing files
MinimalIni ==
    [EmptyIni EXCEPT !["Certificates.CertificateFile"] = Some(pC),
                     !["Certificates.PrivateKeyFile"] = Some(pK),
                     !["Certificates.RdpKeyFile"] = Some(pR)]

ValidIni ==
    [MinimalIni EXCEPT !["Target.Host"] = Some(sHost),
                       !["Target.Port"] = Some(<<"3","3","8","9">>)]

RichIni ==
    [ValidIni EXCEPT !["Server.Host"] = Some(sHost),
                     !["Server.Port"] = Some(<<"1">>),
                     !["Target.FixedTarget"] = Some(S_TRUE),
                     !["Channels.Passthrough"] =
                         Some(<<"r","d","p","d","r",",","r","d","p","s","n","d">>),
                     !["Plugins.Modules"] = Some(<<"m",",","n">>),
                     !["Plugins.Required"] = Some(<<"m">>),
                     !["Clipboard.MaxTextLength"] = Some(<<"3","3","8","9">>),
                     !["Certificates.PrivateKeyFile"] = None,
                     !["Certificates.PrivateKeyContent"] = Some(sX)]

ServerInis ==
    {[ValidIni EXCEPT !["Server.Host"] = h, !["Server.Port"] = p] :
        h \in Opt({sHost, <<>>}), p \in Opt(NumVals)}

TargetInis ==
    {[MinimalIni EXCEPT !["Target.FixedTarget"] = b, !["Target.Port"] = p,
                        !["Target.Host"] = h] :
        b \in Opt(BoolVals), p \in Opt(NumVals), h \in Opt({sHost})}

BoolInis == {[ValidIni EXCEPT ![k] = b] : k \in BoolKeys, b \in Opt(BoolVals)}

ChannelInis == {[ValidIni EXCEPT !["Channels.Passthrough"] = l] : l \in Opt(ListVals)}

PluginInis ==
    {[ValidIni EXCEPT !["Plugins.Modules"] = a, !["Plugins.Required"] = b] :
        a \in Opt(PluginVals), b \in Opt(PluginVals)}

ClipboardInis ==
    {[ValidIni EXCEPT !["Clipboard.MaxTextLength"] = p] : p \in Opt(NumVals)}

FileVals(good) == {None, Some(good), Some(pM)}
ContentVals == {None, Some(<<>>), Some(sX)}

CertificateInis ==
    {[ValidIni EXCEPT !["Certificates.CertificateFile"] = f1,
                      !["Certificates.CertificateContent"] = c1,
                      !["Certificates.PrivateKeyFile"] = f2,
                      !["Certificates.PrivateKeyContent"] = c2,
                      !["Certificates.RdpKeyFile"] = f3,
                      !["Certificates.RdpKeyContent"] = c3] :
        f1 \in FileVals(pC), c1 \in ContentVals,
        f2 \in FileVals(pK), c2 \in ContentVals,
        f3 \in FileVals(pR), c3 \in ContentVals}

Inis == {MinimalIni, RichIni} \cup ServerInis \cup TargetInis \cup BoolInis
        \cup ChannelInis \cup PluginInis \cup ClipboardInis \cup CertificateInis

FailChoices == {NoFail} \cup 0..MaxFailAt

----------------------------------------------------------------------------
(* The program *)

NoRead == [fn |-> "none", key |-> "", flag |-> FALSE, present |-> FALSE,
           int |-> 0, ok |-> FALSE, val |-> 0, b |-> FALSE]

Init ==
    /\ ini \in Inis
    /\ pc = "idle"
    /\ entry = "none"
    /\ heap = [a \in Addr |-> FreeBlock]
    /\ allocs = 0
    /\ failAt = NoFail
    /\ config = NULL
    /\ loaded = NULL
    /\ ran = <<>>
    /\ probed = <<>>
    /\ dst = NULL
    /\ cloneRc = "none"
    /\ nclones = 0
    /\ rd = NoRead

\* an entry point up to its call of server_config_load_ini: IniFile_New or
\* the parse of the text may fail, and then the caller receives NULL
LoadEntry(name) ==
    /\ pc = "idle"
    /\ entry' = name
    /\ \E outcome \in {"new_failed", "parse_failed", "parsed"}, f \in FailChoices :
          IF outcome = "parsed"
          THEN pc' = "load_ini" /\ failAt' = f
          ELSE pc' = "failed" /\ failAt' = NoFail
    /\ UNCHANGED <<ini, heap, allocs, config, loaded, ran, probed, dst, cloneRc,
                   nclones, rd>>

pf_server_config_load_buffer == LoadEntry("buffer")

pf_server_config_load_file == LoadEntry("file")

\* calloc of the configuration; without it `return config` returns NULL
server_config_load_ini ==
    /\ pc = "load_ini"
    /\ LET t == Malloc(Mem(heap, 0), CfgBlock(ZeroConfig))
       IN  /\ heap' = t.heap
           /\ config' = t.ptr
           /\ IF t.ptr = NULL
              THEN pc' = "failed" /\ allocs' = 0 /\ failAt' = NoFail
              ELSE pc' = "server" /\ allocs' = t.n /\ failAt' = failAt
    /\ UNCHANGED <<ini, entry, loaded, ran, probed, dst, cloneRc, nclones, rd>>

\* one `if (!pf_config_load_...(ini, config)) goto out;` of
\* server_config_load_ini: r is the loader's result
Step(name, r, next) ==
    /\ heap' = [r.heap EXCEPT ![config].val = r.c]
    /\ allocs' = r.n
    /\ ran' = Append(ran, <<name, r.ok>>)
    /\ pc' = IF r.ok THEN next ELSE "out"
    /\ UNCHANGED <<ini, entry, failAt, config, loaded, dst, cloneRc, nclones, rd>>

LoadServer ==
    /\ pc = "server"
    /\ Step("Server", pf_config_load_server(ini, Mem(heap, allocs), heap[config].val),
            "target")
    /\ UNCHANGED probed

LoadTarget ==
    /\ pc = "target"
    /\ Step("Target", pf_config_load_target(ini, Mem(heap, allocs), heap[config].val),
            "channels")
    /\ UNCHANGED probed

LoadChannels ==
    /\ pc = "channels"
    /\ Step("Channels", pf_config_load_channels(ini, Mem(heap, allocs), heap[config].val),
            "input")
    /\ UNCHANGED probed

LoadInput ==
    /\ pc = "input"
    /\ Step("Input", pf_config_load_input(ini, Mem(heap, allocs), heap[config].val),
            "security")
    /\ UNCHANGED probed

LoadSecurity ==
    /\ pc = "security"
    /\ Step("Security", pf_config_load_security(ini, Mem(heap, allocs), heap[config].val),
            "modules")
    /\ UNCHANGED probed

LoadModules ==
    /\ pc = "modules"
    /\ Step("Modules", pf_config_load_modules(ini, Mem(heap, allocs), heap[config].val),
            "clipboard")
    /\ UNCHANGED probed

LoadClipboard ==
    /\ pc = "clipboard"
    /\ Step("Clipboard", pf_config_load_clipboard(ini, Mem(heap, allocs), heap[config].val),
            "gfx")
    /\ UNCHANGED probed

LoadGfxSettings ==
    /\ pc = "gfx"
    /\ Step("GFXSettings",
            pf_config_load_gfx_settings(ini, Mem(heap, allocs), heap[config].val),
            "certificates")
    /\ UNCHANGED probed

LoadCertificates ==
    /\ pc = "certificates"
    /\ LET r == pf_config_load_certificates(ini, Mem(heap, allocs), heap[config].val,
                                            probed)
       IN  Step("Certificates", r, "ret") /\ probed' = r.probes

\* out: pf_server_config_free(config); return NULL
LoadOut ==
    /\ pc = "out"
    /\ heap' = pf_server_config_free(heap, config)
    /\ config' = NULL
    /\ loaded' = NULL
    /\ pc' = "failed"
    /\ allocs' = 0
    /\ failAt' = NoFail
    /\ UNCHANGED <<ini, entry, ran, probed, dst, cloneRc, nclones, rd>>

\* return config; the entry point frees the KeyStore and returns it
LoadReturn ==
    /\ pc = "ret"
    /\ loaded' = config
    /\ config' = NULL
    /\ pc' = "loaded"
    /\ allocs' = 0
    /\ failAt' = NoFail
    /\ UNCHANGED <<ini, entry, heap, ran, probed, dst, cloneRc, nclones, rd>>

\* the allocations a pf_config_clone of the configuration at p makes: the
\* object and one _strdup for each string that is not NULL
CloneAllocs(p) ==
    1 + Cardinality({st \in 1..Len(CloneSteps) :
                        CloneSteps[st][1] = "str" /\ heap[p].val[CloneSteps[st][2]] # NULL})

\* the caller calls pf_config_clone(&dst, loaded); failAt is the allocation
\* of the call that fails, if one does
CloneCall ==
    /\ pc = "loaded"
    /\ dst = NULL
    /\ nclones < MaxClones
    /\ pc' = "clone"
    /\ \E f \in FailChoices :
          /\ f < CloneAllocs(loaded)
          /\ failAt' = f
    /\ allocs' = 0
    /\ UNCHANGED <<ini, entry, heap, config, loaded, ran, probed, dst, cloneRc,
                   nclones, rd>>

\* pf_config_clone(&dst, loaded)
Clone ==
    /\ pc = "clone"
    /\ LET r == pf_config_clone(Mem(heap, 0), loaded)
       IN  /\ heap' = r.heap
           /\ allocs' = r.n
           /\ dst' = IF r.rc THEN r.ptr ELSE dst
           /\ cloneRc' = IF r.rc THEN "TRUE" ELSE "FALSE"
    /\ nclones' = nclones + 1
    /\ pc' = "loaded"
    /\ UNCHANGED <<ini, entry, failAt, config, loaded, ran, probed, rd>>

\* pf_server_config_free(dst)
FreeClone ==
    /\ pc \in {"loaded", "freed"}
    /\ dst # NULL
    /\ heap' = pf_server_config_free(heap, dst)
    /\ dst' = NULL
    /\ UNCHANGED <<ini, pc, entry, allocs, failAt, config, loaded, ran, probed,
                   cloneRc, nclones, rd>>

\* pf_server_config_free(loaded)
FreeConfig ==
    /\ pc = "loaded"
    /\ heap' = pf_server_config_free(heap, loaded)
    /\ loaded' = NULL
    /\ pc' = "freed"
    /\ UNCHANGED <<ini, entry, allocs, failAt, config, dst, ran, probed, cloneRc,
                   nclones, rd>>

Next ==
    \/ pf_server_config_load_buffer
    \/ pf_server_config_load_file
    \/ server_config_load_ini
    \/ LoadServer
    \/ LoadTarget
    \/ LoadChannels
    \/ LoadInput
    \/ LoadSecurity
    \/ LoadModules
    \/ LoadClipboard
    \/ LoadGfxSettings
    \/ LoadCertificates
    \/ LoadOut
    \/ LoadReturn
    \/ CloneCall
    \/ Clone
    \/ FreeClone
    \/ FreeConfig

Spec == Init /\ [][Next]_vars

----------------------------------------------------------------------------
(* The scalar readers applied to every key of every INI text *)

ReadUint16 ==
    /\ pc = "idle" /\ rd.fn = "none"
    /\ \E key \in Keys, required \in BOOLEAN :
          LET r == pf_config_get_uint16(ini, key, 0, required)
          IN  rd' = [fn |-> "uint16", key |-> key, flag |-> required,
                     present |-> IsSome(IniFile_GetKeyValueString(ini, key)),
                     int |-> IniFile_GetKeyValueInt(ini, key),
                     ok |-> r.ok, val |-> r.result, b |-> FALSE]
    /\ UNCHANGED <<ini, pc, entry, heap, allocs, failAt, config, loaded, ran, probed,
                   dst, cloneRc, nclones>>

ReadUint32 ==
    /\ pc = "idle" /\ rd.fn = "none"
    /\ \E key \in Keys, required \in BOOLEAN :
          LET r == pf_config_get_uint32(ini, key, 0, required)
          IN  rd' = [fn |-> "uint32", key |-> key, flag |-> required,
                     present |-> IsSome(IniFile_GetKeyValueString(ini, key)),
                     int |-> IniFile_GetKeyValueInt(ini, key),
                     ok |-> r.ok, val |-> r.result, b |-> FALSE]
    /\ UNCHANGED <<ini, pc, entry, heap, allocs, failAt, config, loaded, ran, probed,
                   dst, cloneRc, nclones>>

ReadBool ==
    /\ pc = "idle" /\ rd.fn = "none"
    /\ \E key \in Keys, fallback \in BOOLEAN :
          rd' = [fn |-> "bool", key |-> key, flag |-> fallback,
                 present |-> IsSome(IniFile_GetKeyValueString(ini, key)),
                 int |-> IniFile_GetKeyValueInt(ini, key),
                 ok |-> TRUE, val |-> 0,
                 b |-> pf_config_get_bool(ini, key, fallback)]
    /\ UNCHANGED <<ini, pc, entry, heap, allocs, failAt, config, loaded, ran, probed,
                   dst, cloneRc, nclones>>

NextReaders == ReadUint16 \/ ReadUint32 \/ ReadBool

SpecReaders == Init /\ [][NextReaders]_vars

----------------------------------------------------------------------------
(* Properties *)

LoaderOrder == <<"Server", "Target", "Channels", "Input", "Security", "Modules",
                 "Clipboard", "GFXSettings", "Certificates">>

\* the configuration object in progress or returned, NULL when there is none
Live == IF config # NULL THEN config ELSE loaded

Cfg(p) == heap[p].val

AllFree == \A a \in Addr : heap[a].kind = "free"

StrOf(p) == IF p = NULL THEN None ELSE Some(heap[p].val)

\* the value of the configuration object at p: scalars, strings and lists
ValueOf(p) ==
    [f \in DOMAIN ZeroConfig |->
        IF f \in OwnedFields THEN StrOf(Cfg(p)[f]) ELSE Cfg(p)[f]]

\* the storage of the configuration object at p
Storage(p) == ({Cfg(p)[f] : f \in OwnedFields} \ {NULL}) \cup {p}

\* C1: loading the INI that holds only [Certificates] with three existing
\* files succeeds (once the text is parsed and the object allocated) and
\* gives Host absent, Port unset, FixedTarget false, GFX, DisplayControl and
\* AudioOutput true, Clipboard and RemoteApp false.
C1_MinimalIniLoads ==
    (ini = MinimalIni /\ ran # <<>>) =>
        /\ pc \notin {"out", "failed"}
        /\ pc = "loaded" =>
              /\ Cfg(loaded).Host = NULL /\ Cfg(loaded).Port = 0
              /\ ~Cfg(loaded).FixedTarget
              /\ Cfg(loaded).GFX /\ Cfg(loaded).DisplayControl
              /\ Cfg(loaded).AudioOutput
              /\ ~Cfg(loaded).Clipboard /\ ~Cfg(loaded).RemoteApp

\* C2: the section loaders run in the fixed order and the run stops at the
\* first that fails; after a failure everything stored on the object is
\* released and the caller has no configuration; the caller has one exactly
\* when all nine loaders succeeded, for both entry points, and none when the
\* parse of the text fails.
C2_LoadAllOrNothing ==
    /\ Len(ran) <= Len(LoaderOrder)
    /\ \A k \in 1..Len(ran) : ran[k][1] = LoaderOrder[k]
    /\ \A k \in 1..(Len(ran) - 1) : ran[k][2]
    /\ (ran # <<>> /\ ~ran[Len(ran)][2]) => pc \in {"out", "failed"}
    /\ pc = "failed" => (loaded = NULL /\ config = NULL /\ AllFree)
    /\ pc = "failed" => ~(Len(ran) = 9 /\ ran[9][2])
    /\ pc = "loaded" => (loaded # NULL /\ Len(ran) = 9 /\ ran[9][2])
    /\ loaded # NULL => (pc \in {"loaded", "clone"} /\ heap[loaded].kind = "cfg")
    /\ (Len(ran) = 9 /\ ran[9][2]) => pc \in {"ret", "loaded", "clone", "freed"}
    /\ pc # "idle" => entry \in {"buffer", "file"}

C2_Witness ==
    /\ pc = "failed" /\ entry = "file"
    /\ Len(ran) = 3 /\ ~ran[3][2]
    /\ IsSome(ini["Target.Host"])
    /\ AllFree

TripleKeys == << <<"CertificateFile", "CertificateContent">>,
                 <<"PrivateKeyFile", "PrivateKeyContent">>,
                 <<"RdpKeyFile", "RdpKeyContent">> >>

FileOf(t) == ini["Certificates." \o TripleKeys[t][1]]
ContentOf(t) == ini["Certificates." \o TripleKeys[t][2]]

FileNotFound(t) == IsSome(FileOf(t)) /\ Get(FileOf(t)) \notin Files
EmptyContent(t) == IsSome(ContentOf(t)) /\ Len(Get(ContentOf(t))) = 0
MutuallyExclusive(t) == IsSome(FileOf(t)) /\ IsSome(ContentOf(t))
RequiredMissing(t) == ~IsSome(FileOf(t)) /\ ~IsSome(ContentOf(t))

\* the triple gives exactly one of its two keys, an existing file or a
\* content that is not empty
ExactlyOneValid(t) ==
    \/ /\ IsSome(FileOf(t)) /\ Get(FileOf(t)) \in Files /\ ~IsSome(ContentOf(t))
    \/ /\ ~IsSome(FileOf(t)) /\ IsSome(ContentOf(t)) /\ Len(Get(ContentOf(t))) > 0

\* the triples before t are all accepted
Evaluated(t) == \A u \in 1..(t - 1) : ExactlyOneValid(u)

ProbeOf(t) == IF Evaluated(t) /\ IsSome(FileOf(t)) THEN <<Get(FileOf(t))>> ELSE <<>>

\* C3: each credential triple, in the order Certificate, PrivateKey, RdpKey:
\* a file that does not exist, an empty content, both keys or neither key
\* fail the load; the loader accepts exactly when every triple gives exactly
\* one valid key; the triples after a failing one are not evaluated (no
\* existence check is made for them and their fields stay unset).
C3_Certificates ==
    /\ Len(ran) < 9 => probed = <<>>
    /\ Len(ran) = 9 =>
          /\ \A t \in 1..3 :
                (FileNotFound(t) \/ EmptyContent(t) \/ MutuallyExclusive(t)
                      \/ RequiredMissing(t))
                   => (~ran[9][2] /\ loaded = NULL)
          /\ ran[9][2] <=> \A t \in 1..3 : ExactlyOneValid(t)
          /\ probed = ProbeOf(1) \o ProbeOf(2) \o ProbeOf(3)
          /\ Live # NULL =>
                \A t \in 1..3 : ~Evaluated(t) =>
                    /\ Cfg(Live)[TripleKeys[t][1]] = NULL
                    /\ Cfg(Live)[TripleKeys[t][2]] = NULL

C3_Witness ==
    /\ pc = "out" /\ Len(ran) = 9
    /\ ExactlyOneValid(1) /\ Cfg(config).CertificateContent # NULL
    /\ FileNotFound(2)
    /\ IsSome(FileOf(3)) /\ probed = <<pM>>

\* C4: a clone pf_config_clone reports as made is equal to its source in
\* every field, and shares no storage with it.
C4_CloneEqualAndDisjoint ==
    (cloneRc = "TRUE" /\ dst # NULL /\ loaded # NULL) =>
        /\ ValueOf(dst) = ValueOf(loaded)
        /\ Storage(dst) \cap Storage(loaded) = {}

\* an allocation of the last pf_config_clone call failed
CloneAllocFailed == cloneRc # "none" /\ failAt >= 0 /\ failAt < allocs

\* C5: when an allocation made while cloning fails, pf_config_clone reports
\* failure and hands out no clone; it never reports success with a clone
\* that lacks a string or list the source has.
C5_CloneFailsWhenAllocationFails ==
    /\ CloneAllocFailed => (cloneRc = "FALSE" /\ dst = NULL)
    /\ (cloneRc = "TRUE" /\ dst # NULL /\ loaded # NULL) =>
          \A f \in OwnedFields : Cfg(loaded)[f] # NULL => Cfg(dst)[f] # NULL

\* the reader's call is not refused for a required key that is absent
NotMissing == rd.present \/ ~rd.flag

C7_BoolReader ==
    rd.fn = "bool" =>
        /\ rd.ok
        /\ ~rd.present => rd.b = rd.flag
        /\ rd.present =>
              /\ stricmp_eq(Get(ini[rd.key]), S_TRUE) => rd.b
              /\ rd.int # 1 => rd.b
              /\ (rd.int = 1 /\ ~stricmp_eq(Get(ini[rd.key]), S_TRUE)) => ~rd.b
              /\ Get(ini[rd.key]) \in {<<"t","r","u","e">>, <<"y","e","s">>,
                                      <<"F","A","L","S","E">>, <<"0">>, <<>>} => rd.b

C7_Witness ==
    /\ rd.fn = "bool" /\ rd.present /\ ~rd.flag
    /\ Get(ini[rd.key]) = <<"y","e","s">> /\ rd.b

\* FixedTarget is given as TRUE
FixedTargetTrue ==
    /\ IsSome(ini["Target.FixedTarget"])
    /\ stricmp_eq(Get(ini["Target.FixedTarget"]), S_TRUE)

\* C8: with FixedTarget TRUE and Target.Host or Target.Port absent the
\* Target loader fails and the caller gets no configuration; a loaded
\* configuration with FixedTarget true has a TargetHost and a TargetPort in
\* 1..65535.
C8_FixedTargetNeedsHostAndPort ==
    /\ (Len(ran) >= 2 /\ FixedTargetTrue
          /\ (~IsSome(ini["Target.Host"]) \/ ~IsSome(ini["Target.Port"])))
       => (~ran[2][2] /\ Len(ran) = 2 /\ loaded = NULL /\ pc \in {"out", "failed"})
    /\ (loaded # NULL /\ Cfg(loaded).FixedTarget) =>
          /\ Cfg(loaded).TargetHost # NULL
          /\ heap[Cfg(loaded).TargetHost].kind = "str"
          /\ StrOf(Cfg(loaded).TargetHost) = ini["Target.Host"]
          /\ Cfg(loaded).TargetPort >= 1 /\ Cfg(loaded).TargetPort <= 65535

C8_Witness ==
    /\ pc = "failed" /\ Len(ran) = 2 /\ ~ran[2][2]
    /\ ini["Target.FixedTarget"] = Some(S_TRUE)
    /\ ~IsSome(ini["Target.Host"])
    /\ ini["Target.Port"] = Some(<<"3","3","8","9">>)

\* the names of Channels.Passthrough
PassthroughNames ==
    IF IsSome(ini["Channels.Passthrough"]) /\ Get(ini["Channels.Passthrough"]) # <<>>
    THEN Split(Get(ini["Channels.Passthrough"]))
    ELSE <<>>

ListOf(p) == IF p = NULL THEN <<>> ELSE heap[p].val

sRdpdr == <<"r","d","p","d","r">>
sRdpsnd == <<"r","d","p","s","n","d">>

\* C9: the Channels loader keeps the order of the Passthrough names
\* (rdpdr,rdpsnd loads as [rdpdr, rdpsnd]); it succeeds exactly when every
\* name has at most CHANNEL_NAME_LEN characters, a longer name fails the
\* load and is not cut; a loaded configuration has only names within the
\* limit.
C9_Passthrough ==
    /\ Len(ran) >= 3 =>
          /\ ran[3][2] <=>
                \A x \in 1..Len(PassthroughNames) :
                    Len(PassthroughNames[x]) <= CHANNEL_NAME_LEN
          /\ ~ran[3][2] => (loaded = NULL /\ pc \in {"out", "failed"})
          /\ (ran[3][2] /\ Live # NULL) =>
                /\ ListOf(Cfg(Live).Passthrough) = PassthroughNames
                /\ Cfg(Live).PassthroughCount = Len(PassthroughNames)
                /\ ini["Channels.Passthrough"] = Some(sRdpdr \o <<",">> \o sRdpsnd)
                      => ListOf(Cfg(Live).Passthrough) = <<sRdpdr, sRdpsnd>>
                /\ ini["Channels.Passthrough"] = Some(sRdpsnd \o <<",">> \o sRdpdr)
                      => ListOf(Cfg(Live).Passthrough) = <<sRdpsnd, sRdpdr>>
          /\ ini["Channels.Passthrough"] = Some(<<"1","2","3","4","5","6","7">>)
                => ran[3][2]
          /\ ini["Channels.Passthrough"] \in
                {Some(<<"1","2","3","4","5","6","7","8">>),
                 Some(<<"a",",","1","2","3","4","5","6","7","8">>)}
                => ~ran[3][2]
    /\ loaded # NULL =>
          \A x \in 1..Cfg(loaded).PassthroughCount :
              Len(ListOf(Cfg(loaded).Passthrough)[x]) <= CHANNEL_NAME_LEN

C9_Witness ==
    /\ loaded # NULL
    /\ Cfg(loaded).PassthroughCount = 1
    /\ ListOf(Cfg(loaded).Passthrough) = << <<"1","2","3","4","5","6","7">> >>

\* C10: with Server.Host absent the Server loader succeeds whatever
\* Server.Port holds, and Host stays absent and Port 0; with Server.Host
\* present it succeeds only if Server.Port is present with a value in
\* 1..65535; a loaded configuration has Host absent and Port 0, or Host
\* present and Port in 1..65535.
C10_ServerPortOnlyWithHost ==
    /\ (Len(ran) >= 1 /\ ~IsSome(ini["Server.Host"])) =>
          /\ ran[1][2]
          /\ Live # NULL => (Cfg(Live).Host = NULL /\ Cfg(Live).Port = 0)
    /\ (Len(ran) >= 1 /\ IsSome(ini["Server.Host"]) /\ ran[1][2]) =>
          /\ IsSome(ini["Server.Port"])
          /\ IniFile_GetKeyValueInt(ini, "Server.Port") >= 1
          /\ IniFile_GetKeyValueInt(ini, "Server.Port") <= 65535
          /\ Live # NULL =>
                /\ StrOf(Cfg(Live).Host) = ini["Server.Host"]
                /\ Cfg(Live).Port = IniFile_GetKeyValueInt(ini, "Server.Port")
    /\ loaded # NULL =>
          \/ Cfg(loaded).Host = NULL /\ Cfg(loaded).Port = 0
          \/ /\ Cfg(loaded).Host # NULL
             /\ Cfg(loaded).Port >= 1 /\ Cfg(loaded).Port <= 65535

C10_Witness ==
    /\ loaded # NULL
    /\ ~IsSome(ini["Server.Host"])
    /\ ini["Server.Port"] = Some(<<"6","5","5","3","6">>)
    /\ Cfg(loaded).Host = NULL /\ Cfg(loaded).Port = 0

====
